---- MODULE Spec2Model ----
(***************************************************************************)
(* DebugSocket relay (server/main.go): producers stream log frames to     *)
(* /stream, consumers subscribe on /tail/{device}, queries read            *)
(* /logs/{device}, /devices and /health.  One task per HTTP request.  A    *)
(* step of a task runs from one point where the task can block on shared   *)
(* state (a lock held across a blocking call, a connection read or write)  *)
(* to the next: a critical section that makes no blocking call is one     *)
(* step, a release belongs to the step before it.                          *)
(*                                                                         *)
(* A Session is created by exactly one handleStream call, so a session is  *)
(* identified by the number of the producer task that created it; 0 is    *)
(* the nil session pointer.                                                *)
(*                                                                         *)
(* Spec explores the interleavings of producers, consumers and queries on  *)
(* one kind of frame; LogSpec follows one producer and one /logs query     *)
(* through every kind of frame, filter and output format.                  *)
(***************************************************************************)
EXTENDS Integers, Sequences, FiniteSets, TLC

\* ---------------------------------------------------------------- bounds
\* frames read from all producer connections together
MaxFrames == 2
\* requests the server accepts in one run, of any kind
MaxRequests == 3

\* the tasks that can serve a request: two /stream, two /tail, one query
Producers == {1, 2}
Consumers == {1, 2}
Queries == {1}

\* ---------------------------------------------------------------- inputs
Secret == "s3cret"
SecretInputs == {Secret, "wrong", ""}
DeviceOrder == <<"d1", "d2">>
DeviceIDs == {DeviceOrder[k] : k \in 1..Len(DeviceOrder)}
DeviceInputs == DeviceIDs \cup {""}
\* a message is a sequence of words
Msgs == {<<"boot">>}

\* time in ticks; the text format of /logs prints whole milliseconds
TicksPerMilli == 2
\* the zero time.Time
ZeroTime == 0
\* the values of time.Now(), at the arrival of a frame and at a /logs request
Times == {2, 3}
\* the value of time.Now() in Spec
StreamTimes == {2}

\* A frame is its payload (text) and what json.Unmarshal makes of it: valid
\* when it returns no error, ts and msg the fields it has stored by then.
\* Spec reads well-formed structured frames.
Frames == {[text |-> <<"json">> \o m, valid |-> TRUE, ts |-> 1, msg |-> m] : m \in Msgs}
\* LogSpec reads a structured frame, a structured frame without a timestamp,
\* raw text, and a JSON object whose ts is not a time (msg already decoded)
LogFrames ==
  { [text |-> <<"json", "Error", "A">>, valid |-> TRUE, ts |-> 1, msg |-> <<"Error", "A">>],
    [text |-> <<"json", "Info", "B">>, valid |-> TRUE, ts |-> ZeroTime, msg |-> <<"Info", "B">>],
    [text |-> <<"Error", "raw">>, valid |-> FALSE, ts |-> ZeroTime, msg |-> <<>>],
    [text |-> <<"json", "Info", "yesterday">>, valid |-> FALSE, ts |-> ZeroTime, msg |-> <<"Info">>] }

\* /logs query parameters: since, regex, format ("" is an absent parameter)
SinceInputs == {"", "500us", "1ms", "soon"}
RegexInputs == {"", "Error", "Info|raw", "("}
FormatInputs == {"", "json", "text"}

\* status written by upgrader.Upgrade when the handshake fails
UpgradeFailed == 426

NoSession == 0
NoTask == <<"none", 0>>
P(p) == <<"stream", p>>
C(c) == <<"tail", c>>
Q(q) == <<"query", q>>

\* ------------------------------------------------------- pure helpers
Range(s) == {s[i] : i \in 1..Len(s)}

IsPrefix(s, t) == Len(s) <= Len(t) /\ SubSeq(t, 1, Len(s)) = s

Last(s) == s[Len(s)]

\* handleStream: the session variable of the handler, the Session it built
sessionFromRegistry(p, m, hash) == m[hash[p]]
sessionShared(p, m, hash) == 1
session(p, m, hash) == p

\* deviceHash == ""
MissingDeviceNever(deviceHash) == FALSE
MissingDevice(deviceHash) == deviceHash = ""

\* session == nil
NotFoundNever(s) == FALSE
NotFound(s) == s = NoSession

\* json.Unmarshal(message, &entry)
Unmarshal(frame) == [err |-> ~frame.valid, ts |-> frame.ts, msg |-> frame.msg]

\* entry = LogEntry{Timestamp: time.Now(), Message: string(message)}
RawEntryPartial(frame, now) == [ts |-> frame.ts, msg |-> frame.msg]
RawEntry(frame, now) == [ts |-> now, msg |-> frame.text]

\* handleStream: the entry made of a frame that arrives at time now
ParseEntry(frame, now) ==
  LET u == Unmarshal(frame)
      e == IF u.err THEN RawEntry(frame, now) ELSE [ts |-> u.ts, msg |-> u.msg]
  IN IF e.ts = ZeroTime THEN [e EXCEPT !.ts = now] ELSE e

\* handleLogs: logs := make([]LogEntry, len(session.Logs)); copy(logs, ...)
CopyLogsShort(logs) == [i \in 1..(Len(logs) - 1) |-> logs[i]]
CopyLogs(logs) == [i \in 1..Len(logs) |-> logs[i]]

\* time.ParseDuration on the since parameter, in ticks
parseDuration(str) ==
  IF str = "1ms" THEN [err |-> FALSE, d |-> TicksPerMilli]
  ELSE IF str = "500us" THEN [err |-> FALSE, d |-> TicksPerMilli \div 2]
  ELSE [err |-> TRUE, d |-> 0]

\* Time.After
AfterOrEqual(t, u) == t >= u
After(t, u) == t > u

\* handleLogs: the loop that keeps the entries with Timestamp.After(cutoff)
RECURSIVE FilterSince(_, _)
FilterSince(logs, cutoff) ==
  IF logs = <<>> THEN <<>>
  ELSE (IF After(Head(logs).ts, cutoff) THEN <<Head(logs)>> ELSE <<>>)
         \o FilterSince(Tail(logs), cutoff)

\* regexp.Compile: a pattern is an alternation of literal words
CompileLenient(pattern) ==
  IF pattern = "Error" THEN [err |-> FALSE, alts |-> {"Error"}]
  ELSE IF pattern = "Info|raw" THEN [err |-> FALSE, alts |-> {"Info", "raw"}]
  ELSE [err |-> FALSE, alts |-> {}]

Compile(pattern) ==
  IF pattern = "Error" THEN [err |-> FALSE, alts |-> {"Error"}]
  ELSE IF pattern = "Info|raw" THEN [err |-> FALSE, alts |-> {"Info", "raw"}]
  ELSE [err |-> TRUE, alts |-> {}]

\* re.MatchString: the pattern matches anywhere in the message
MatchString(re, msg) == \E i \in 1..Len(msg) : msg[i] \in re.alts

\* handleLogs: the loop that keeps the entries with re.MatchString(Message)
RECURSIVE FilterRegex(_, _)
FilterRegex(logs, re) ==
  IF logs = <<>> THEN <<>>
  ELSE (IF MatchString(re, Head(logs).msg) THEN <<Head(logs)>> ELSE <<>>)
         \o FilterRegex(Tail(logs), re)

\* handleLogs: the sequence the regex loop ranges over, logs after the
\* since filter has reassigned it
RegexInputSnapshot(snapshot, logs) == snapshot
RegexInput(snapshot, logs) == logs

\* fmt.Fprintf(w, "%s  %s\n", Timestamp.Format("2006-01-02 15:04:05.000"),
\* Message): the timestamp in whole milliseconds
TextLine(e) == [stamp |-> e.ts \div TicksPerMilli, msg |-> e.msg]
\* json encoding of a LogEntry: {"ts": RFC3339Nano, "msg": ...}
JsonEntry(e) == [ts |-> e.ts, msg |-> e.msg]
\* handleLogs: the body for the format parameter
Render(logs, format) ==
  IF format = "text" THEN [i \in 1..Len(logs) |-> TextLine(logs[i])]
  ELSE [i \in 1..Len(logs) |-> JsonEntry(logs[i])]

\* Server.checkSecret
checkSecretAcceptAll(secret) == TRUE
checkSecret(secret) == secret = Secret

\* sync.RWMutex: w is the task holding the write lock, r the tasks holding a
\* read lock.  A task waiting in Lock() or RLock() is a task whose next step
\* is disabled.  (Go also makes a waiting writer block new readers; leaving
\* that out only adds interleavings.)
FreeMutex == [w |-> NoTask, r |-> {}]
CanRLock(mu) == mu.w = NoTask
CanLock(mu) == mu.w = NoTask /\ mu.r = {}
RLockNoop(mu, t) == mu

RLock(mu, t) == [mu EXCEPT !.r = @ \cup {t}]
RUnlockNoop(mu, t) == mu

RUnlock(mu, t) == [mu EXCEPT !.r = @ \ {t}]
Lock(mu, t) == [mu EXCEPT !.w = t]
UnlockNoop(mu) == mu

Unlock(mu) == [mu EXCEPT !.w = NoTask]

\* handleStream: oldSession.conn.Close() when a session exists for the key
CloseOldKeepOpen(conns, old) == conns
CloseOld(conns, old) ==
  IF old # NoSession /\ conns[old] # "nil"
    THEN [conns EXCEPT ![old] = "closed"]
    ELSE conns

\* handleStream: s.sessions[deviceHash] = session
InstallSessionIfAbsent(m, d, p) == IF m[d] = NoSession THEN [m EXCEPT ![d] = p] ELSE m
InstallSessionOnly(m, d, p) == [x \in DOMAIN m |-> IF x = d THEN p ELSE NoSession]
InstallSession(m, d, p) == [m EXCEPT ![d] = p]

\* handleStream: session.Logs = append(session.Logs, entry)
AppendLogDropped(logs, e) == logs
AppendLogReset(logs, e) == <<e>>
AppendLogFront(logs, e) == <<e>> \o logs
AppendLog(logs, e) == Append(logs, e)

lenLogsStale(logs) == IF logs = <<>> THEN 0 ELSE Len(logs) - 1

\* len(session.Logs), read under logMu
lenLogs(logs) == Len(logs)

\* handleTail: session.tailConns = append(session.tailConns, conn)
AttachConnTwice(conns, c) == Append(Append(conns, c), c)
AttachConn(conns, c) == Append(conns, c)

\* handleTail: what the handler writes to a consumer it attaches: nothing of
\* the stored log
AttachReplayStored(logs) == logs
AttachReplay(logs) == <<>>

\* handleTail (deferred) and broadcastToTail: remove the first element equal
\* to c, append(tailConns[:i], tailConns[i+1:]...)
RECURSIVE FindConn(_, _, _)
FindConn(conns, c, i) ==
  IF i > Len(conns) THEN 0
  ELSE IF conns[i] = c THEN i
  ELSE FindConn(conns, c, i + 1)

RemoveAt(conns, i) == SubSeq(conns, 1, i - 1) \o SubSeq(conns, i + 1, Len(conns))

RemoveConnFirst(conns, c) == IF conns = <<>> THEN conns ELSE Tail(conns)
RemoveConn(conns, c) ==
  IF FindConn(conns, c, 1) = 0 THEN conns ELSE RemoveAt(conns, FindConn(conns, c, 1))

\* broadcastToTail: for _, dead := range deadConns { remove dead; dead.Close() }
RECURSIVE RemoveDead(_, _)
RemoveDeadNone(conns, dead) == conns
RemoveDeadAll(conns, dead) == <<>>
RemoveDead(conns, dead) ==
  IF dead = <<>> THEN conns
  ELSE RemoveDead(RemoveConn(conns, Head(dead)), Tail(dead))

\* the handles broadcastToTail closes: those of deadConns it finds in the set
FoundDead(conns, dead) == Range(dead) \cap Range(conns)

\* conn.WriteMessage on a healthy consumer: the frame is the next one the
\* client receives
WriteMessageOutOfOrder(stream, msg) == <<msg>> \o stream
WriteMessageTwice(stream, msg) == Append(Append(stream, msg), msg)
WriteMessage(stream, msg) == Append(stream, msg)

\* ---------------------------------------------------------------- state
VARIABLES
  sessions,      \* Server.sessions: deviceHash -> session (0 = absent)
  sessionsMu,    \* Server.sessionsMu
  DeviceHash,    \* Session.DeviceHash
  Logs,          \* Session.Logs
  LogCount,      \* Session.LogCount
  tailConns,     \* Session.tailConns, a sequence of consumer handles
  tailMu,        \* Session.tailMu
  logMu,         \* Session.logMu
  conn,          \* state of the producer connection Session.conn
  spc,           \* handleStream: position of each producer task
  sresp,         \* handleStream: HTTP status answered
  entry,         \* handleStream: local entry
  nread,         \* frames read so far from each producer connection
  idx,           \* broadcastToTail: loop index over session.tailConns
  deadConns,     \* broadcastToTail: local deadConns
  tpc,           \* handleTail: position of each consumer task
  tresp,         \* handleTail: HTTP status answered
  tsession,      \* handleTail: local session
  tconn,         \* state of the consumer connection
  qpc,           \* handleLogs / handleDevices / handleHealth: position
  qresp,         \* query response
  qsession,      \* handleLogs: local session
  qlogs,         \* handleLogs: local logs (the copy)
  qiter,         \* handleDevices: sessions of the map not yet visited
  qdevices,      \* handleDevices: local devices
  \* history of the run, read by the properties only
  installOrder,  \* per deviceID, the producers in the order they installed
  received,      \* per consumer, the frames written successfully to it
  attachLen,     \* per consumer, len(session.Logs) when it attached
  attachPass,    \* per consumer, publish passes begun when it attached
  passes,        \* per session, publish passes begun (read lock taken)
  deadEver       \* per session, handles marked dead in a finished pass

regVars == <<sessions, sessionsMu, DeviceHash>>
sessVars == <<Logs, LogCount, tailConns, tailMu, logMu, conn>>
streamVars == <<spc, sresp, entry, nread, idx, deadConns>>
tailVars == <<tpc, tresp, tsession, tconn>>
queryVars == <<qpc, qresp, qsession, qlogs, qiter, qdevices>>
histVars == <<installOrder, received, attachLen, attachPass, passes, deadEver>>
vars == <<regVars, sessVars, streamVars, tailVars, queryVars, histVars>>

\* seq and src are not fields of LogEntry: the arrival number of the frame
\* on its connection and the producer task that read it
NoEntry == [seq |-> 0, src |-> 0, ts |-> ZeroTime, msg |-> <<>>]

RECURSIVE SumRead(_, _)
SumRead(f, S) ==
  IF S = {} THEN 0
  ELSE LET x == CHOOSE y \in S : TRUE IN f[x] + SumRead(f, S \ {x})
TotalFrames == SumRead(nread, Producers)

\* requests accepted by the HTTP server so far
Started ==
  Cardinality({p \in Producers : spc[p] # "idle"})
  + Cardinality({c \in Consumers : tpc[c] # "idle"})
  + Cardinality({q \in Queries : qpc[q] # "idle"})

\* Device ids are interchangeable: a run names them in the order of
\* DeviceOrder, so a request may name a device only once every device before
\* it has been registered by a producer.
Named == {DeviceHash[p] : p \in Producers}
Introduced(device) ==
  \A k \in 1..Len(DeviceOrder) :
    DeviceOrder[k] = device => \A j \in 1..(k - 1) : DeviceOrder[j] \in Named

\* NewServer
Init ==
  /\ sessions = [d \in DeviceInputs |-> NoSession]
  /\ sessionsMu = FreeMutex
  /\ DeviceHash = [p \in Producers |-> ""]
  /\ Logs = [p \in Producers |-> <<>>]
  /\ LogCount = [p \in Producers |-> 0]
  /\ tailConns = [p \in Producers |-> <<>>]
  /\ tailMu = [p \in Producers |-> FreeMutex]
  /\ logMu = [p \in Producers |-> FreeMutex]
  /\ conn = [p \in Producers |-> "nil"]
  /\ spc = [p \in Producers |-> "idle"]
  /\ sresp = [p \in Producers |-> 0]
  /\ entry = [p \in Producers |-> NoEntry]
  /\ nread = [p \in Producers |-> 0]
  /\ idx = [p \in Producers |-> 0]
  /\ deadConns = [p \in Producers |-> <<>>]
  /\ tpc = [c \in Consumers |-> "idle"]
  /\ tresp = [c \in Consumers |-> 0]
  /\ tsession = [c \in Consumers |-> NoSession]
  /\ tconn = [c \in Consumers |-> "nil"]
  /\ qpc = [q \in Queries |-> "idle"]
  /\ qresp = [q \in Queries |-> [code |-> 0, body |-> <<>>]]
  /\ qsession = [q \in Queries |-> NoSession]
  /\ qlogs = [q \in Queries |-> <<>>]
  /\ qiter = [q \in Queries |-> {}]
  /\ qdevices = [q \in Queries |-> <<>>]
  /\ installOrder = [d \in DeviceInputs |-> <<>>]
  /\ received = [c \in Consumers |-> <<>>]
  /\ attachLen = [c \in Consumers |-> 0]
  /\ attachPass = [c \in Consumers |-> 0]
  /\ passes = [p \in Producers |-> 0]
  /\ deadEver = [p \in Producers |-> {}]

UpgradeIgnoreError(handshakeOk) == TRUE

\* conn, err := s.upgrader.Upgrade(w, r, nil): err == nil exactly when the
\* websocket handshake succeeded; on an error the handler returns
Upgrade(handshakeOk) == handshakeOk

\* ------------------------------------------------- handleStream (producer)
\* checkSecret, device parameter, upgrader.Upgrade, then the critical section
\* under sessionsMu.Lock: close the old producer, build the new Session,
\* install it.  The request has query parameters secret and device;
\* upgradeOk is the outcome of the websocket handshake.
handleStream(p, secret, device, upgradeOk) ==
  /\ spc[p] = "idle"
  /\ Started < MaxRequests
  /\ p > 1 => spc[p - 1] # "idle"
  /\ IF ~checkSecret(secret)
       THEN /\ sresp' = [sresp EXCEPT ![p] = 401]
            /\ spc' = [spc EXCEPT ![p] = "done"]
            /\ UNCHANGED <<conn, regVars, installOrder>>
     ELSE IF MissingDevice(device)
       THEN /\ sresp' = [sresp EXCEPT ![p] = 400]
            /\ spc' = [spc EXCEPT ![p] = "done"]
            /\ UNCHANGED <<conn, regVars, installOrder>>
     ELSE IF ~Upgrade(upgradeOk)
       THEN /\ sresp' = [sresp EXCEPT ![p] = UpgradeFailed]
            /\ spc' = [spc EXCEPT ![p] = "done"]
            /\ UNCHANGED <<conn, regVars, installOrder>>
     ELSE /\ CanLock(sessionsMu)
          /\ Introduced(device)
          /\ sresp' = [sresp EXCEPT ![p] = 101]
          /\ conn' = CloseOld([conn EXCEPT ![p] = "open"], sessions[device])
          /\ sessions' = InstallSession(sessions, device, p)
          /\ DeviceHash' = [DeviceHash EXCEPT ![p] = device]
          /\ sessionsMu' = Unlock(Lock(sessionsMu, P(p)))
          /\ installOrder' = [installOrder EXCEPT ![device] = Append(@, p)]
          /\ spc' = [spc EXCEPT ![p] = "read"]
  /\ UNCHANGED <<Logs, LogCount, tailConns, tailMu, logMu>>
  /\ UNCHANGED <<entry, nread, idx, deadConns>>
  /\ UNCHANGED <<tailVars, queryVars>>
  /\ UNCHANGED <<received, attachLen, attachPass, passes, deadEver>>

StreamRequest(p) ==
  \E secret \in SecretInputs, device \in DeviceInputs, upgradeOk \in BOOLEAN :
    handleStream(p, secret, device, upgradeOk)

ReadableAfterClose(c) == c # "nil"

\* conn.ReadMessage returns a message only from a connection that is open;
\* once the connection has been closed it returns an error
Readable(c) == c = "open"

\* conn.ReadMessage returns a frame at time now; json.Unmarshal, the raw
\* fallback and the zero-timestamp rule give the entry
ReadMessage(p, frame, now) ==
  /\ spc[p] = "read"
  /\ Readable(conn[p])
  /\ TotalFrames < MaxFrames
  /\ LET e == ParseEntry(frame, now)
     IN entry' = [entry EXCEPT ![p] =
                    [seq |-> nread[p] + 1, src |-> p, ts |-> e.ts, msg |-> e.msg]]
  /\ nread' = [nread EXCEPT ![p] = @ + 1]
  /\ spc' = [spc EXCEPT ![p] = "append"]
  /\ UNCHANGED <<regVars, sessVars, sresp, idx, deadConns>>
  /\ UNCHANGED <<tailVars, queryVars, histVars>>

StreamReadFrame(p) ==
  \E frame \in Frames, now \in StreamTimes : ReadMessage(p, frame, now)

\* conn.ReadMessage returns an error (the peer went away, or the connection
\* was closed by a newer connect): break, and the deferred conn.Close()
StreamReadError(p) ==
  /\ spc[p] = "read"
  /\ conn' = [conn EXCEPT ![p] = "closed"]
  /\ spc' = [spc EXCEPT ![p] = "done"]
  /\ UNCHANGED <<regVars, Logs, LogCount, tailConns, tailMu, logMu>>
  /\ UNCHANGED <<sresp, entry, nread, idx, deadConns>>
  /\ UNCHANGED <<tailVars, queryVars, histVars>>

\* logMu.Lock(); append; LogCount = len(Logs); logMu.Unlock()
StreamAppend(p) ==
  /\ spc[p] = "append"
  /\ LET s == session(p, sessions, DeviceHash)
     IN /\ CanLock(logMu[s])
        /\ Logs' = [Logs EXCEPT ![s] = AppendLog(@, entry[p])]
        /\ LogCount' = [LogCount EXCEPT ![s] = lenLogs(Logs'[s])]
        /\ logMu' = [logMu EXCEPT ![s] = Unlock(Lock(@, P(p)))]
  /\ spc' = [spc EXCEPT ![p] = "bRLock"]
  /\ UNCHANGED <<regVars, tailConns, tailMu, conn>>
  /\ UNCHANGED <<sresp, entry, nread, idx, deadConns>>
  /\ UNCHANGED <<tailVars, queryVars, histVars>>

RangeDoneOnError(i, n, ok) == i >= n \/ ~ok

\* for _, conn := range session.tailConns: the loop ends after the last
\* handle of the set, whatever the writes returned (a failed write only
\* appends the handle to deadConns)
RangeDone(i, n, ok) == i >= n

\* ------------------------------------------------ broadcastToTail (publish)
\* where the pass goes after the range loop: if len(deadConns) > 0 the
\* clean-up, else return
AfterWrites(dead) == IF Len(dead) > 0 THEN "bPrune" ELSE "read"

\* tailMu.RLock(); if len(session.tailConns) == 0 { return } and the deferred
\* RUnlock
BroadcastEmpty(p) ==
  /\ spc[p] = "bRLock"
  /\ CanRLock(tailMu[p])
  /\ Len(tailConns[p]) = 0
  /\ tailMu' = [tailMu EXCEPT ![p] = RUnlock(RLock(@, P(p)), P(p))]
  /\ passes' = [passes EXCEPT ![p] = @ + 1]
  /\ entry' = [entry EXCEPT ![p] = NoEntry]
  /\ spc' = [spc EXCEPT ![p] = "read"]
  /\ UNCHANGED <<regVars, Logs, LogCount, tailConns, logMu, conn>>
  /\ UNCHANGED <<sresp, nread, idx, deadConns>>
  /\ UNCHANGED <<tailVars, queryVars>>
  /\ UNCHANGED <<installOrder, received, attachLen, attachPass, deadEver>>

\* one iteration of the range loop over session.tailConns, the first one
\* together with tailMu.RLock(): SetWriteDeadline, WriteMessage; the write
\* succeeds, or fails by error or by the 5s deadline.  After the last
\* iteration the read lock is released (the RUnlock before the clean-up, or
\* the deferred RUnlock).
BroadcastWrite(p) ==
  /\ spc[p] \in {"bRLock", "bWrite"}
  /\ spc[p] = "bRLock" => CanRLock(tailMu[p]) /\ Len(tailConns[p]) > 0
  /\ LET first == spc[p] = "bRLock"
         i == IF first THEN 1 ELSE idx[p]
         h == tailConns[p][i]
         held == IF first THEN RLock(tailMu[p], P(p)) ELSE tailMu[p]
     IN \E ok \in BOOLEAN :
          LET last == RangeDone(i, Len(tailConns[p]), ok) IN
          /\ ok => tconn[h] = "open"
          /\ received' = IF ok THEN [received EXCEPT ![h] = WriteMessage(@, entry[p])]
                               ELSE received
          /\ deadConns' = [deadConns EXCEPT ![p] = IF ok THEN @ ELSE Append(@, h)]
          /\ passes' = [passes EXCEPT ![p] = IF first THEN @ + 1 ELSE @]
          /\ IF last
               THEN /\ tailMu' = [tailMu EXCEPT ![p] = RUnlock(held, P(p))]
                    /\ spc' = [spc EXCEPT ![p] = AfterWrites(deadConns'[p])]
                    /\ idx' = [idx EXCEPT ![p] = 0]
                    /\ entry' = [entry EXCEPT ![p] = NoEntry]
               ELSE /\ tailMu' = [tailMu EXCEPT ![p] = held]
                    /\ spc' = [spc EXCEPT ![p] = "bWrite"]
                    /\ idx' = [idx EXCEPT ![p] = i + 1]
                    /\ entry' = entry
  /\ UNCHANGED <<regVars, Logs, LogCount, tailConns, logMu, conn>>
  /\ UNCHANGED <<sresp, nread>>
  /\ UNCHANGED <<tailVars, queryVars>>
  /\ UNCHANGED <<installOrder, attachLen, attachPass, deadEver>>

\* tailMu.Lock(); remove and close every dead handle still in the set;
\* tailMu.Unlock(); tailMu.RLock() and the deferred RUnlock
BroadcastPrune(p) ==
  /\ spc[p] = "bPrune"
  /\ CanLock(tailMu[p])
  /\ tailConns' = [tailConns EXCEPT ![p] = RemoveDead(@, deadConns[p])]
  /\ tconn' = [h \in Consumers |->
                 IF h \in FoundDead(tailConns[p], deadConns[p]) THEN "closed" ELSE tconn[h]]
  /\ tailMu' = [tailMu EXCEPT ![p] = RUnlock(RLock(Unlock(Lock(@, P(p))), P(p)), P(p))]
  /\ deadEver' = [deadEver EXCEPT ![p] = @ \cup Range(deadConns[p])]
  /\ deadConns' = [deadConns EXCEPT ![p] = <<>>]
  /\ spc' = [spc EXCEPT ![p] = "read"]
  /\ UNCHANGED <<regVars, Logs, LogCount, logMu, conn>>
  /\ UNCHANGED <<sresp, entry, nread, idx>>
  /\ UNCHANGED <<tpc, tresp, tsession>>
  /\ UNCHANGED <<queryVars, installOrder, received, attachLen, attachPass, passes>>

\* --------------------------------------------------- handleTail (consumer)
\* checkSecret, device hash from the path, the lookup under
\* sessionsMu.RLock, the nil check, upgrader.Upgrade
handleTail(c, secret, device, upgradeOk) ==
  /\ tpc[c] = "idle"
  /\ Started < MaxRequests
  /\ c > 1 => tpc[c - 1] # "idle"
  /\ IF ~checkSecret(secret)
       THEN /\ tresp' = [tresp EXCEPT ![c] = 401]
            /\ tpc' = [tpc EXCEPT ![c] = "done"]
            /\ UNCHANGED <<tsession, tconn>>
     ELSE IF MissingDevice(device)
       THEN /\ tresp' = [tresp EXCEPT ![c] = 400]
            /\ tpc' = [tpc EXCEPT ![c] = "done"]
            /\ UNCHANGED <<tsession, tconn>>
     ELSE /\ CanRLock(sessionsMu)
          /\ Introduced(device)
          /\ IF NotFound(sessions[device])
               THEN /\ tresp' = [tresp EXCEPT ![c] = 404]
                    /\ tpc' = [tpc EXCEPT ![c] = "done"]
                    /\ UNCHANGED <<tsession, tconn>>
             ELSE IF ~Upgrade(upgradeOk)
               THEN /\ tresp' = [tresp EXCEPT ![c] = UpgradeFailed]
                    /\ tpc' = [tpc EXCEPT ![c] = "done"]
                    /\ UNCHANGED <<tsession, tconn>>
             ELSE /\ tresp' = [tresp EXCEPT ![c] = 101]
                  /\ tsession' = [tsession EXCEPT ![c] = sessions[device]]
                  /\ tpc' = [tpc EXCEPT ![c] = "attach"]
                  /\ tconn' = [tconn EXCEPT ![c] = "open"]
  /\ UNCHANGED <<regVars, sessVars, streamVars>>
  /\ UNCHANGED <<queryVars, histVars>>

TailRequest(c) ==
  \E secret \in SecretInputs, device \in DeviceInputs, upgradeOk \in BOOLEAN :
    handleTail(c, secret, device, upgradeOk)

tailSessionCurrent(resolved, current) == current

\* handleTail: the session variable of the handler, the *Session it read
\* from the registry at its lookup (not the one the registry holds now)
tailSession(resolved, current) == resolved

\* tailMu.Lock(); tailConns = append(tailConns, conn); tailMu.Unlock()
TailAttach(c) ==
  /\ tpc[c] = "attach"
  /\ LET s == tailSession(tsession[c], sessions[DeviceHash[tsession[c]]])
     IN /\ CanLock(tailMu[s])
        /\ tailConns' = [tailConns EXCEPT ![s] = AttachConn(@, c)]
        /\ tailMu' = [tailMu EXCEPT ![s] = Unlock(Lock(@, C(c)))]
        /\ attachLen' = [attachLen EXCEPT ![c] = Len(Logs[s])]
        /\ attachPass' = [attachPass EXCEPT ![c] = passes[s]]
        /\ received' = [received EXCEPT ![c] = @ \o AttachReplay(Logs[s])]
  /\ tpc' = [tpc EXCEPT ![c] = "reading"]
  /\ UNCHANGED <<regVars, Logs, LogCount, logMu, conn>>
  /\ UNCHANGED <<streamVars, tresp, tsession, tconn>>
  /\ UNCHANGED <<queryVars, installOrder, passes, deadEver>>

\* conn.ReadMessage returns an error (the client closed, or the handle was
\* closed by a publish pass); deferred: tailMu.Lock(), the handle is removed
\* from tailConns, tailMu.Unlock()
TailDetach(c) ==
  /\ tpc[c] = "reading"
  /\ LET s == tsession[c]
     IN /\ CanLock(tailMu[s])
        /\ tailConns' = [tailConns EXCEPT ![s] = RemoveConn(@, c)]
        /\ tailMu' = [tailMu EXCEPT ![s] = Unlock(Lock(@, C(c)))]
  /\ tpc' = [tpc EXCEPT ![c] = "close"]
  /\ UNCHANGED <<regVars, Logs, LogCount, logMu, conn>>
  /\ UNCHANGED <<streamVars, tresp, tsession, tconn>>
  /\ UNCHANGED <<queryVars, histVars>>

\* deferred: conn.Close()
TailClose(c) ==
  /\ tpc[c] = "close"
  /\ tconn' = [tconn EXCEPT ![c] = "closed"]
  /\ tpc' = [tpc EXCEPT ![c] = "done"]
  /\ UNCHANGED <<regVars, sessVars, streamVars, tresp, tsession>>
  /\ UNCHANGED <<queryVars, histVars>>

\* ------------------------------- handleLogs / handleDevices / handleHealth
NoBody == <<>>

Unauthorized == [code |-> 401, body |-> NoBody]

\* handleLogs up to the copy: checkSecret, device hash from the path, the
\* lookup under sessionsMu.RLock, the nil check
handleLogs(q, secret, device) ==
  /\ qpc[q] = "idle"
  /\ Started < MaxRequests
  /\ q > 1 => qpc[q - 1] # "idle"
  /\ IF ~checkSecret(secret)
       THEN /\ qresp' = [qresp EXCEPT ![q] = Unauthorized]
            /\ qpc' = [qpc EXCEPT ![q] = "done"]
            /\ qsession' = qsession
     ELSE IF MissingDevice(device)
       THEN /\ qresp' = [qresp EXCEPT ![q] = [code |-> 400, body |-> NoBody]]
            /\ qpc' = [qpc EXCEPT ![q] = "done"]
            /\ qsession' = qsession
     ELSE /\ CanRLock(sessionsMu)
          /\ Introduced(device)
          /\ IF NotFound(sessions[device])
               THEN /\ qresp' = [qresp EXCEPT ![q] = [code |-> 404, body |-> NoBody]]
                    /\ qpc' = [qpc EXCEPT ![q] = "done"]
                    /\ qsession' = qsession
               ELSE /\ qresp' = qresp
                    /\ qsession' = [qsession EXCEPT ![q] = sessions[device]]
                    /\ qpc' = [qpc EXCEPT ![q] = "logsCopy"]
  /\ UNCHANGED <<regVars, sessVars, streamVars, tailVars>>
  /\ UNCHANGED <<qlogs, qiter, qdevices, histVars>>

LogsRequest(q) ==
  \E secret \in SecretInputs, device \in DeviceInputs : handleLogs(q, secret, device)

\* handleDevices up to the range loop: checkSecret, sessionsMu.RLock(), the
\* range over s.sessions starts
handleDevices(q, secret) ==
  /\ qpc[q] = "idle"
  /\ Started < MaxRequests
  /\ q > 1 => qpc[q - 1] # "idle"
  /\ IF ~checkSecret(secret)
       THEN /\ qresp' = [qresp EXCEPT ![q] = Unauthorized]
            /\ qpc' = [qpc EXCEPT ![q] = "done"]
            /\ UNCHANGED <<sessionsMu, qiter>>
       ELSE /\ CanRLock(sessionsMu)
            /\ sessionsMu' = RLock(sessionsMu, Q(q))
            /\ qiter' = [qiter EXCEPT ![q] = {sessions[d] : d \in DeviceInputs} \ {NoSession}]
            /\ qpc' = [qpc EXCEPT ![q] = "devicesIter"]
            /\ qresp' = qresp
  /\ UNCHANGED <<sessions, DeviceHash, sessVars, streamVars, tailVars>>
  /\ UNCHANGED <<qsession, qlogs, qdevices, histVars>>

DevicesRequest(q) == \E secret \in SecretInputs : handleDevices(q, secret)

\* handleHealth: checkSecret, len(s.sessions) under sessionsMu.RLock
handleHealth(q, secret) ==
  /\ qpc[q] = "idle"
  /\ Started < MaxRequests
  /\ q > 1 => qpc[q - 1] # "idle"
  /\ IF ~checkSecret(secret)
       THEN qresp' = [qresp EXCEPT ![q] = Unauthorized]
       ELSE /\ CanRLock(sessionsMu)
            /\ qresp' = [qresp EXCEPT ![q] =
                 [code |-> 200,
                  body |-> <<Cardinality({d \in DeviceInputs : sessions[d] # NoSession})>>]]
  /\ qpc' = [qpc EXCEPT ![q] = "done"]
  /\ UNCHANGED <<regVars, sessVars, streamVars, tailVars>>
  /\ UNCHANGED <<qsession, qlogs, qiter, qdevices, histVars>>

HealthRequest(q) == \E secret \in SecretInputs : handleHealth(q, secret)

\* handleLogs: copy(logs, session.Logs) under logMu.RLock
LogsCopy(q) ==
  /\ qpc[q] = "logsCopy"
  /\ CanRLock(logMu[qsession[q]])
  /\ qlogs' = [qlogs EXCEPT ![q] = CopyLogs(Logs[qsession[q]])]
  /\ qpc' = [qpc EXCEPT ![q] = "logsWrite"]
  /\ UNCHANGED <<regVars, sessVars, streamVars, tailVars>>
  /\ UNCHANGED <<qresp, qsession, qiter, qdevices, histVars>>

\* handleLogs after the copy: the since filter with cutoff now - duration,
\* the regex filter, the body in the requested format; 400 for a since that
\* is not a duration or a regex that does not compile.  since, regex and
\* format are query parameters of the request, now is time.Now().
SinceWindowDefault(logs, since, now) ==
  FilterSince(logs, now - (IF since # "" THEN parseDuration(since).d ELSE 1))

\* if sinceStr != "": cutoff := time.Now().Add(-duration); keep the entries
\* whose Timestamp is After(cutoff)
SinceWindow(logs, since, now) ==
  IF since # "" THEN FilterSince(logs, now - parseDuration(since).d) ELSE logs

\* the response handleLogs computes from its copy of the log, the request's
\* parameters and the clock reading of time.Now()
LogsResponse(logs, since, regex, format, now) ==
  LET d == parseDuration(since)
      re == Compile(regex)
      bySince == SinceWindow(logs, since, now)
      byRegex == IF regex # "" THEN FilterRegex(RegexInput(logs, bySince), re)
                               ELSE bySince
  IN IF since # "" /\ d.err THEN [code |-> 400, body |-> NoBody]
     ELSE IF regex # "" /\ re.err THEN [code |-> 400, body |-> NoBody]
     ELSE [code |-> 200, body |-> Render(byRegex, format)]

LogsRespond(q, since, regex, format, now) ==
  /\ qpc[q] = "logsWrite"
  /\ qresp' = [qresp EXCEPT ![q] = LogsResponse(qlogs[q], since, regex, format, now)]
  /\ qpc' = [qpc EXCEPT ![q] = "done"]
  /\ UNCHANGED <<regVars, sessVars, streamVars, tailVars>>
  /\ UNCHANGED <<qsession, qlogs, qiter, qdevices, histVars>>

\* in Spec a /logs request has no filter and the default format
LogsWrite(q) == \E now \in StreamTimes : LogsRespond(q, "", "", "", now)

\* in LogSpec it has any filter and format
LogsWriteFiltered(q) ==
  \E since \in SinceInputs, regex \in RegexInputs, format \in FormatInputs, now \in Times :
    LogsRespond(q, since, regex, format, now)

\* handleDevices: one iteration of the range over the map (in any order):
\* logMu.RLock, the summary with len(session.Logs), logMu.RUnlock
DevicesVisit(q) ==
  /\ qpc[q] = "devicesIter"
  /\ \E s \in qiter[q] :
       /\ CanRLock(logMu[s])
       /\ qdevices' = [qdevices EXCEPT ![q] =
                         Append(@, [device |-> DeviceHash[s], log_count |-> lenLogs(Logs[s])])]
       /\ qiter' = [qiter EXCEPT ![q] = @ \ {s}]
  /\ UNCHANGED <<regVars, sessVars, streamVars, tailVars>>
  /\ UNCHANGED <<qpc, qresp, qsession, qlogs, histVars>>

\* handleDevices: the range is over; sessionsMu.RUnlock(); encode devices
DevicesWrite(q) ==
  /\ qpc[q] = "devicesIter"
  /\ qiter[q] = {}
  /\ sessionsMu' = RUnlock(sessionsMu, Q(q))
  /\ qresp' = [qresp EXCEPT ![q] = [code |-> 200, body |-> qdevices[q]]]
  /\ qpc' = [qpc EXCEPT ![q] = "done"]
  /\ UNCHANGED <<sessions, DeviceHash, sessVars, streamVars, tailVars>>
  /\ UNCHANGED <<qsession, qlogs, qiter, qdevices, histVars>>

\* ------------------------------------------------------------ the system
Next ==
  \/ \E p \in Producers : StreamRequest(p)
  \/ \E p \in Producers : StreamReadFrame(p)
  \/ \E p \in Producers : StreamReadError(p)
  \/ \E p \in Producers : StreamAppend(p)
  \/ \E p \in Producers : BroadcastEmpty(p)
  \/ \E p \in Producers : BroadcastWrite(p)
  \/ \E p \in Producers : BroadcastPrune(p)
  \/ \E c \in Consumers : TailRequest(c)
  \/ \E c \in Consumers : TailAttach(c)
  \/ \E c \in Consumers : TailDetach(c)
  \/ \E c \in Consumers : TailClose(c)
  \/ \E q \in Queries : LogsRequest(q)
  \/ \E q \in Queries : DevicesRequest(q)
  \/ \E q \in Queries : HealthRequest(q)
  \/ \E q \in Queries : LogsCopy(q)
  \/ \E q \in Queries : LogsWrite(q)
  \/ \E q \in Queries : DevicesVisit(q)
  \/ \E q \in Queries : DevicesWrite(q)

Spec == Init /\ [][Next]_vars

\* one producer of device d1 and one /logs query for it, with every kind of
\* frame and every filter and format
LogProducer == 1
LogDevice == DeviceOrder[1]

LogStreamReadFrame(p) ==
  \E frame \in LogFrames, now \in Times : ReadMessage(p, frame, now)

LogNext ==
  \/ handleStream(LogProducer, Secret, LogDevice, TRUE)
  \/ LogStreamReadFrame(LogProducer)
  \/ StreamReadError(LogProducer)
  \/ StreamAppend(LogProducer)
  \/ BroadcastEmpty(LogProducer)
  \/ \E q \in Queries : handleLogs(q, Secret, LogDevice)
  \/ \E q \in Queries : LogsCopy(q)
  \/ \E q \in Queries : LogsWriteFiltered(q)

LogSpec == Init /\ [][LogNext]_vars

\* producers and consumers of device d1 with valid requests, under fair
\* scheduling: a handler that can take its next step eventually takes it
\* (every goroutine is scheduled; a consumer write returns within its
\* deadline; ReadMessage on a closed connection returns an error).  A read
\* from an open connection is the peer's move and is not forced.
FairNext ==
  \/ \E p \in Producers : handleStream(p, Secret, LogDevice, TRUE)
  \/ \E p \in Producers : StreamReadFrame(p)
  \/ \E p \in Producers : StreamReadError(p)
  \/ \E p \in Producers : StreamAppend(p)
  \/ \E p \in Producers : BroadcastEmpty(p)
  \/ \E p \in Producers : BroadcastWrite(p)
  \/ \E p \in Producers : BroadcastPrune(p)
  \/ \E c \in Consumers : handleTail(c, Secret, LogDevice, TRUE)
  \/ \E c \in Consumers : TailAttach(c)
  \/ \E c \in Consumers : TailDetach(c)
  \/ \E c \in Consumers : TailClose(c)

Fairness ==
  \A p \in Producers :
    /\ WF_vars(StreamAppend(p))
    /\ WF_vars(BroadcastEmpty(p))
    /\ WF_vars(BroadcastWrite(p))
    /\ WF_vars(BroadcastPrune(p))
    /\ WF_vars(conn[p] = "closed" /\ StreamReadError(p))

FairSpec == Init /\ [][FairNext]_vars /\ Fairness

\* ---------------------------------------------------------------- claims
\* the sessions a deviceID had before its current one
Replaced(d) == {installOrder[d][k] : k \in 1..(Len(installOrder[d]) - 1)}

\* C1: after any sequence of producer connects under one deviceID the
\* registry maps the deviceID to the session of the last connect to take the
\* registry lock, and the producer handle of every earlier session is closed.
C1_LastConnectWins ==
  \A d \in DeviceIDs :
    installOrder[d] # <<>> =>
      /\ sessions[d] = Last(installOrder[d])
      /\ \A old \in Replaced(d) : conn[old] = "closed"

C1_Witness ==
  \E d \in DeviceIDs : Len(installOrder[d]) = 2 /\ sessions[d] = installOrder[d][2]

\* C2: when a producer reconnects under a deviceID, no consumer handle of
\* the replaced session remains open.
C2_OldConsumersClosed ==
  \A d \in DeviceIDs : \A old \in Replaced(d) :
    \A h \in Range(tailConns[old]) : tconn[h] = "closed"

\* C3: for each deviceID at most one producer handle installed in the
\* registry for it is open.
C3_OneLiveProducer ==
  \A d \in DeviceIDs :
    Cardinality({p \in Range(installOrder[d]) : conn[p] = "open"}) <= 1

C3_Witness ==
  \E d \in DeviceIDs :
    /\ Len(installOrder[d]) = 2
    /\ conn[installOrder[d][2]] = "open"
    /\ conn[installOrder[d][1]] = "closed"

\* C4 as claimed: a consumer never receives an entry that was appended to
\* the store before the consumer attached.
C4_NoEntryAppendedBeforeAttach ==
  \A c \in Consumers : \A k \in 1..Len(received[c]) :
    received[c][k].seq > attachLen[c]

\* C4 as amended: a consumer never receives an entry whose publish pass
\* began (took the consumer-set read lock) before the consumer attached;
\* entry n of a session is published by the session's n-th pass.
C4_NoEntryPublishedBeforeAttach ==
  \A c \in Consumers : \A k \in 1..Len(received[c]) :
    received[c][k].seq > attachPass[c]

C4_Witness ==
  \E c \in Consumers :
    /\ attachPass[c] >= 1
    /\ Len(received[c]) = 1
    /\ received[c][1].seq = attachPass[c] + 1

\* C5: every consumer receives the entries of its session in the order in
\* which they were published.
C5_PublishOrder ==
  \A c \in Consumers : \A i, j \in 1..Len(received[c]) :
    i < j => received[c][i].seq < received[c][j].seq

C5_Witness == \E c \in Consumers : Len(received[c]) >= 2

\* C6: any entry that has been written to a consumer of a session is already
\* in that session's stored log.
C6_AppendBeforePublish ==
  \A c \in Consumers : \A k \in 1..Len(received[c]) :
    LET e == received[c][k]
        s == tsession[c]
    IN e.seq <= Len(Logs[s]) /\ Logs[s][e.seq] = e

C6_Witness ==
  \E c \in Consumers :
    /\ received[c] # <<>>
    /\ Logs[tsession[c]][1] = received[c][1]

\* C7 as claimed: a handle whose write failed during a publish pass is, by
\* the end of that pass, removed from the consumer set and closed, and no
\* later pass writes to it.
C7_DeadRemovedAndClosed ==
  \A p \in Producers : \A h \in deadEver[p] :
    /\ h \notin Range(tailConns[p])
    /\ tconn[h] = "closed"
    /\ spc[p] = "bWrite" => tailConns[p][idx[p]] # h

\* C7 as amended: by the end of the pass the handle is removed from the
\* consumer set, and it is closed unless its own connection handler detached
\* it during the pass and has its conn.Close() still to run; no later pass
\* writes to it.
C7_DeadRemoved ==
  \A p \in Producers : \A h \in deadEver[p] :
    /\ h \notin Range(tailConns[p])
    /\ tconn[h] = "closed" \/ tpc[h] = "close"
    /\ spc[p] = "bWrite" => tailConns[p][idx[p]] # h

C7_Witness ==
  \E p \in Producers : \E h \in deadEver[p] : tconn[h] = "closed" /\ passes[p] >= 2

\* C8: a session's log is append-only: every step leaves each session's log
\* a prefix of the log after the step.
C8_AppendOnly == [][\A p \in Producers : IsPrefix(Logs[p], Logs'[p])]_vars

C8_Witness == \E p \in Producers : Len(Logs[p]) >= 2

\* C9: a handle leaves a session's consumer set only in the detach step of
\* its own connection handler or in the clean-up of a publish pass of that
\* session in which its write failed.
C9_ShrinkOnlyByDetachOrPrune ==
  [][\A p \in Producers : \A h \in Range(tailConns[p]) \ Range(tailConns'[p]) :
       \/ tsession[h] = p /\ tpc[h] = "reading" /\ tpc'[h] = "close"
       \/ spc[p] = "bPrune" /\ spc'[p] = "read" /\ h \in Range(deadConns[p])]_vars

C9_Witness ==
  \E c \in Consumers :
    /\ tresp[c] = 101
    /\ tpc[c] = "done"
    /\ c \notin Range(tailConns[tsession[c]])
    /\ sessions[DeviceHash[tsession[c]]] # tsession[c]

\* what a rejected request must leave alone: the registry, every session's
\* log and consumer set, every connection
CoreUnchanged == UNCHANGED <<sessions, DeviceHash, Logs, LogCount, tailConns, conn, tconn>>

\* C10: a /stream, /tail, /logs or /devices request whose secret is missing
\* or wrong is answered 401 and changes neither the registry nor any
\* session's log nor any consumer set, whatever its other parameters.
\* Stated by contraposition: a step that takes a task out of "idle" (the
\* only step a handler's entry can be) and is not "401, nothing changed" is
\* not a step of that task's handler on a request with a bad secret.
C10_BadSecretRejected ==
  [][/\ \A p \in Producers :
          /\ spc[p] = "idle" /\ spc'[p] # "idle"
          /\ ~(sresp'[p] = 401 /\ CoreUnchanged)
          => \A secret \in SecretInputs \ {Secret} :
               \A device \in DeviceInputs, ok \in BOOLEAN :
                 ~handleStream(p, secret, device, ok)
     /\ \A c \in Consumers :
          /\ tpc[c] = "idle" /\ tpc'[c] # "idle"
          /\ ~(tresp'[c] = 401 /\ CoreUnchanged)
          => \A secret \in SecretInputs \ {Secret} :
               \A device \in DeviceInputs, ok \in BOOLEAN :
                 ~handleTail(c, secret, device, ok)
     /\ \A q \in Queries :
          /\ qpc[q] = "idle" /\ qpc'[q] # "idle"
          /\ ~(qresp'[q].code = 401 /\ CoreUnchanged)
          => \A secret \in SecretInputs \ {Secret} :
               /\ \A device \in DeviceInputs : ~handleLogs(q, secret, device)
               /\ ~handleDevices(q, secret)]_vars

C10_Witness ==
  /\ \E p \in Producers : sresp[p] = 401
  /\ \E c \in Consumers : tresp[c] = 401
  /\ \E q \in Queries : qresp[q].code = 401

\* C11 as claimed: GET /health is unauthenticated: whatever the secret of the
\* request, missing and wrong included, it is answered 200 with the status
\* and the session count.
C11_HealthUnauthenticated ==
  [][\A q \in Queries : \A secret \in SecretInputs :
       handleHealth(q, secret) => qresp'[q].code = 200]_vars

\* C12: a /stream request with the valid secret and a missing (empty) device
\* parameter is answered 400 and creates no session, evicts none and closes
\* no connection, whatever the handshake would have done.  Stated by
\* contraposition, as C10.
C12_MissingDeviceRejected ==
  [][\A p \in Producers :
       /\ spc[p] = "idle" /\ spc'[p] # "idle"
       /\ ~(sresp'[p] = 400 /\ CoreUnchanged)
       => \A ok \in BOOLEAN : ~handleStream(p, Secret, "", ok)]_vars

C12_Witness ==
  \E p \in Producers :
    /\ sresp[p] = 400
    /\ spc[p] = "done"
    /\ \E d \in DeviceIDs : sessions[d] # NoSession /\ conn[sessions[d]] = "open"

\* C13: a /tail or /logs request with the valid secret for a deviceID that
\* has no session in the registry is answered 404; the /tail request ends
\* without its connection being upgraded and without a handle being attached
\* to any session.  Stated by contraposition, as C10.
C13_UnknownDeviceNotFound ==
  [][/\ \A c \in Consumers :
          /\ tpc[c] = "idle" /\ tpc'[c] # "idle"
          /\ ~(/\ tresp'[c] = 404
               /\ tpc'[c] = "done"
               /\ tconn'[c] = "nil"
               /\ tailConns' = tailConns)
          => \A device \in DeviceIDs : \A ok \in BOOLEAN :
               sessions[device] = NoSession => ~handleTail(c, Secret, device, ok)
     /\ \A q \in Queries :
          /\ qpc[q] = "idle" /\ qpc'[q] # "idle"
          /\ ~(qresp'[q].code = 404 /\ qpc'[q] = "done")
          => \A device \in DeviceIDs :
               sessions[device] = NoSession => ~handleLogs(q, Secret, device)]_vars

C13_Witness ==
  /\ \E c \in Consumers : tresp[c] = 404 /\ tconn[c] = "nil"
  /\ \E q \in Queries : qresp[q].code = 404

\* frames read from p's connection whose entry is not appended yet
InHand(pc) == IF pc = "append" THEN 1 ELSE 0

\* C14: a producer frame is never rejected: a frame read takes the handler
\* to the append, the append adds exactly that one entry to the handler's
\* session, so that the log has one entry per frame read (the frame in hand
\* excepted); and when json.Unmarshal fails on the frame the entry's message
\* is the raw payload and its timestamp the arrival time.
C14_FrameNeverRejected ==
  [][\A p \in Producers :
       /\ nread'[p] # nread[p] =>
            /\ nread'[p] = nread[p] + 1
            /\ spc'[p] = "append"
            /\ \A frame \in LogFrames : \A now \in Times :
                 ~frame.valid /\ ReadMessage(p, frame, now) =>
                   entry'[p].msg = frame.text /\ entry'[p].ts = now
       /\ spc[p] = "append" /\ spc'[p] # "append" =>
            Logs'[p] = Append(Logs[p], entry[p])
       /\ Len(Logs'[p]) = nread'[p] - InHand(spc'[p])]_vars

C14_Witness ==
  \E p \in Producers :
    /\ Len(Logs[p]) = 2
    /\ Logs[p][1].msg = <<"Error", "raw">>
    /\ Logs[p][2].msg = <<"json", "Info", "yesterday">>
    /\ Logs[p][2].ts # ZeroTime

C16_LogsGoneAfterClose ==
  [][\A q \in Queries : \A d \in DeviceIDs :
       /\ sessions[d] # NoSession
       /\ spc[sessions[d]] = "done"
       /\ handleLogs(q, Secret, d)
       => qresp'[q].code = 404]_vars

\* C17: a producer connect installs a fresh session: at the step that
\* installs it the registry maps the deviceID to a session with an empty log
\* and an empty consumer set; and every entry in a session's log was read by
\* that session's own producer, so nothing an earlier producer of the
\* deviceID appends, before or after its eviction, is in the new log.
C17_FreshSession ==
  [][\A p \in Producers :
       /\ spc[p] = "idle" /\ spc'[p] = "read" =>
            /\ sessions'[DeviceHash'[p]] = p
            /\ Logs'[p] = <<>>
            /\ tailConns'[p] = <<>>
       /\ \A i \in 1..Len(Logs'[p]) : Logs'[p][i].src = p]_vars

C17_Witness ==
  \E d \in DeviceIDs :
    /\ Len(installOrder[d]) = 2
    /\ Len(Logs[installOrder[d][1]]) = 1
    /\ Len(Logs[installOrder[d][2]]) = 1
    /\ nread[installOrder[d][1]] = 1

\* C18: the session log is the sequence of the frames read from the session's
\* producer, in arrival order, one entry per frame (the frame in hand
\* excepted): a well-formed frame gives its message and its timestamp, or
\* the arrival time when it has none; the entry appended is the entry of the
\* frame read last.  A /logs request without filter returns the copy it took
\* of the log entry by entry, in order, in the JSON and in the text format
\* (there with the timestamp in whole milliseconds).
C18_LogEqualsFrames ==
  [][/\ \A p \in Producers :
          /\ \A frame \in LogFrames : \A now \in Times :
               nread'[p] # nread[p] /\ frame.valid /\ ReadMessage(p, frame, now) =>
                 /\ entry'[p].msg = frame.msg
                 /\ entry'[p].ts = IF frame.ts = ZeroTime THEN now ELSE frame.ts
          /\ Logs'[p] # Logs[p] =>
               Logs'[p] = Append(Logs[p], entry[p]) /\ entry[p].seq = nread[p]
          /\ Len(Logs'[p]) = nread'[p] - InHand(spc'[p])
          /\ \A i \in 1..Len(Logs'[p]) : Logs'[p][i].seq = i
     /\ \A q \in Queries :
          /\ qlogs'[q] # qlogs[q] => qlogs'[q] = Logs[qsession[q]]
          /\ qpc[q] = "logsWrite" /\ qpc'[q] # "logsWrite" =>
               \A format \in FormatInputs : \A now \in Times :
                 LogsRespond(q, "", "", format, now) =>
                   /\ qresp'[q].code = 200
                   /\ Len(qresp'[q].body) = Len(qlogs[q])
                   /\ \A i \in 1..Len(qlogs[q]) :
                        /\ qresp'[q].body[i].msg = qlogs[q][i].msg
                        /\ IF format = "text"
                             THEN qresp'[q].body[i].stamp = qlogs[q][i].ts \div TicksPerMilli
                             ELSE qresp'[q].body[i].ts = qlogs[q][i].ts]_vars

C18_Witness ==
  \E q \in Queries :
    /\ qresp[q].code = 200
    /\ Len(qresp[q].body) = 2
    /\ qresp[q].body[1] = [stamp |-> 0, msg |-> <<"Error", "A">>]
    /\ qresp[q].body[2].msg = <<"Error", "raw">>
    /\ Len(Logs[qsession[q]]) = 2

\* C19: the time filter keeps exactly the entries of the copy whose timestamp
\* is strictly after now - duration, in their order; an entry whose
\* timestamp is the cutoff is dropped.
C19_SinceFilter ==
  [][\A q \in Queries :
       qpc[q] = "logsWrite" /\ qpc'[q] # "logsWrite" =>
         \A since \in {"500us", "1ms"} : \A format \in FormatInputs : \A now \in Times :
           LogsRespond(q, since, "", format, now) =>
             LET cutoff == now - parseDuration(since).d
                 StrictlyAfter(e) == e.ts > cutoff
             IN /\ qresp'[q].code = 200
                /\ qresp'[q].body = Render(SelectSeq(qlogs[q], StrictlyAfter), format)]_vars

\* every message of the copy matches every pattern, so only the time filter
\* can have dropped the first entry
C19_Witness ==
  \E q \in Queries :
    /\ qresp[q].code = 200
    /\ Len(qlogs[q]) = 2
    /\ \A i \in 1..2 : qlogs[q][i].msg = <<"Error", "raw">>
    /\ qlogs[q][1].ts < qlogs[q][2].ts
    /\ qresp[q].body = <<JsonEntry(qlogs[q][2])>>

\* C20: with both filters the result is exactly the entries of the copy that
\* are strictly after the cutoff and match the pattern, in their order; and
\* filtering by pattern first and by time second gives the same sequence as
\* the order of the code.
C20_FiltersCompose ==
  [][\A q \in Queries :
       qpc[q] = "logsWrite" /\ qpc'[q] # "logsWrite" =>
         \A since \in {"500us", "1ms"} : \A regex \in {"Error", "Info|raw"} :
           \A format \in FormatInputs : \A now \in Times :
             LogsRespond(q, since, regex, format, now) =>
               LET cutoff == now - parseDuration(since).d
                   re == Compile(regex)
                   Both(e) == e.ts > cutoff /\ MatchString(re, e.msg)
               IN /\ qresp'[q].code = 200
                  /\ qresp'[q].body = Render(SelectSeq(qlogs[q], Both), format)
                  /\ FilterSince(FilterRegex(qlogs[q], re), cutoff)
                       = FilterRegex(FilterSince(qlogs[q], cutoff), re)]_vars

\* the time filter keeps the second entry whatever the request, so the
\* pattern dropped it; the only pattern that does keeps the first entry, so
\* the time filter dropped that
C20_Witness ==
  \E q \in Queries :
    /\ qresp[q] = [code |-> 200, body |-> <<>>]
    /\ Len(qlogs[q]) = 2
    /\ qlogs[q][1] = [seq |-> 1, src |-> LogProducer, ts |-> 1, msg |-> <<"Error", "A">>]
    /\ qlogs[q][2].ts = 3
    /\ qlogs[q][2].msg = <<"Info", "B">>

C22_BadFilterRejected ==
  [][\A q \in Queries :
       qpc[q] = "logsWrite" /\ qpc'[q] # "logsWrite" =>
         \A since \in SinceInputs : \A regex \in RegexInputs :
           \A format \in FormatInputs : \A now \in Times :
             (since = "soon" \/ regex = "(") /\ LogsRespond(q, since, regex, format, now) =>
               /\ qresp'[q] = [code |-> 400, body |-> NoBody]
               /\ CoreUnchanged
               /\ UNCHANGED <<qlogs, qsession, received, sessionsMu, tailMu, logMu>>]_vars

\* a request on a session with two entries was refused as a bad request
C22_Witness ==
  \E q \in Queries :
    /\ qresp[q] = [code |-> 400, body |-> NoBody]
    /\ Len(qlogs[q]) = 2
    /\ Logs[qsession[q]] = qlogs[q]

\* C25: in every state of a publish pass of a producer (from the call of
\* broadcastToTail to its return, so in every state in which one of its
\* consumer writes is pending) the producer holds the entry-log lock of no
\* session, neither as writer nor as reader, and the entry-log lock of its
\* session can be read-locked, so a /logs or /devices request is not kept
\* waiting by the pass.
C25_NoLogLockDuringWrite ==
  \A p \in Producers :
    spc[p] \in {"bRLock", "bWrite", "bPrune"} =>
      /\ \A s \in Producers : logMu[s].w # P(p) /\ P(p) \notin logMu[s].r
      /\ CanRLock(logMu[session(p, sessions, DeviceHash)])

\* a pass has written the entry to its first consumer and the write to the
\* second one is pending
C25_Witness ==
  \E p \in Producers :
    /\ spc[p] = "bWrite"
    /\ idx[p] = 2
    /\ Len(Logs[p]) >= 1
    /\ P(p) \in tailMu[p].r

\* C26 (as stated): while a consumer write of a publish pass of a session is
\* pending, a consumer that is about to attach to that session or to detach
\* from it can take the consumer-set lock.
C26_AttachDetachNotBlocked ==
  \A p \in Producers :
    spc[p] = "bWrite" =>
      \A c \in Consumers :
        tsession[c] = session(p, sessions, DeviceHash) /\ tpc[c] \in {"attach", "reading"} =>
          CanLock(tailMu[tsession[c]])

\* C27: a task that holds the registry lock, as writer or as reader, is
\* never a producer inside a publish pass (waiting for the consumer-set lock
\* or with a consumer write pending) nor a consumer waiting to attach or to
\* detach; the only task that holds it from one step to the next is a
\* /devices request inside its loop, and the entry-log lock of every session
\* it still has to visit can be read-locked.
C27_RegistryLockFreeOfBroadcast ==
  /\ \A p \in Producers :
       sessionsMu.w = P(p) \/ P(p) \in sessionsMu.r =>
         spc[p] \notin {"bRLock", "bWrite", "bPrune"}
  /\ \A c \in Consumers :
       sessionsMu.w = C(c) \/ C(c) \in sessionsMu.r =>
         tpc[c] \notin {"attach", "reading"}
  /\ \A q \in Queries :
       sessionsMu.w = Q(q) \/ Q(q) \in sessionsMu.r =>
         /\ qpc[q] = "devicesIter"
         /\ \A s \in qiter[q] : CanRLock(logMu[s])

\* a /devices request holds the registry lock while a publish pass with a
\* consumer in the set has its write pending or waits for the clean-up
C27_Witness ==
  \E q \in Queries : \E p \in Producers :
    /\ Q(q) \in sessionsMu.r
    /\ spc[p] \in {"bRLock", "bPrune"}
    /\ Len(tailConns[p]) > 0

\* C24: a step changes the log or the consumer set of a session only if it
\* is the append of that session's producer, the clean-up of that session's
\* publish pass, or the attach or detach of a consumer bound to that
\* session, and then the log and the consumer set of every other session
\* are unchanged; the locks of a session are never held by the producer of
\* another session, and a producer with a frame in hand can append whenever
\* its own session's entry-log lock is free, whatever the publish passes of
\* the other sessions are doing.
C24_SessionsIndependent ==
  [][\A s \in Producers :
       /\ Logs'[s] # Logs[s] => spc[s] = "append" /\ spc'[s] = "bRLock"
       /\ tailConns'[s] # tailConns[s] =>
            \/ spc[s] = "bPrune" /\ spc'[s] = "read"
            \/ \E c \in Consumers : tsession[c] = s /\ tpc'[c] # tpc[c]
       /\ Logs'[s] # Logs[s] \/ tailConns'[s] # tailConns[s] =>
            \A o \in Producers \ {s} : Logs'[o] = Logs[o] /\ tailConns'[o] = tailConns[o]
       /\ \A o \in Producers \ {s} :
            /\ tailMu[s].w # P(o) /\ P(o) \notin tailMu[s].r
            /\ logMu[s].w # P(o) /\ P(o) \notin logMu[s].r
       /\ spc[s] = "append" /\ CanLock(logMu[s]) => ENABLED StreamAppend(s)
       /\ spc[s] = "bPrune" /\ CanLock(tailMu[s]) => ENABLED BroadcastPrune(s)]_vars

\* one producer has a frame in hand while the publish pass of another
\* session, with a consumer in its set, has its write pending
C24_Witness ==
  \E s \in Producers : \E o \in Producers \ {s} :
    /\ spc[s] = "append"
    /\ spc[o] = "bRLock"
    /\ Len(tailConns[o]) > 0
    /\ Len(Logs[o]) = 1

\* C29 (as stated): once the handler of an accepted producer connection has
\* returned (its connection is closed), the session it built records no
\* producer handle, so the test oldSession.conn != nil of a later connect
\* for the device fails and the handle is not closed again.
C29_HandleNulledAfterClose ==
  \A p \in Producers :
    spc[p] = "done" /\ sresp[p] = 101 => conn[session(p, sessions, DeviceHash)] = "nil"

\* C28 (as stated): after a producer connection has been closed, by its own
\* handler or by a newer connect for the device, no entry is appended for
\* it and no publish pass is started for it.
C28_ClosedAppendsNothing ==
  [][\A p \in Producers :
       conn[p] = "closed" => Logs'[p] = Logs[p] /\ passes'[p] = passes[p]]_vars

\* C28 (amended): a producer connection goes from not accepted to open to
\* closed and never back, and a handler that has returned stays returned;
\* after the connection has been closed no further frame is read from it,
\* the only entry still appended and published for it is the one of the
\* frame its handler had already read, and once the handler has returned
\* its session's log does not change and no pass is started for it.
C28_ClosedReadsNothing ==
  [][\A p \in Producers :
       /\ conn[p] = "nil" /\ conn'[p] # "nil" =>
            conn'[p] = "open" /\ spc[p] = "idle" /\ spc'[p] = "read"
       /\ conn[p] = "open" => conn'[p] \in {"open", "closed"}
       /\ conn[p] = "closed" => conn'[p] = "closed"
       /\ spc[p] = "done" =>
            spc'[p] = "done" /\ Logs'[p] = Logs[p] /\ passes'[p] = passes[p]
       /\ conn[p] = "closed" =>
            /\ nread'[p] = nread[p]
            /\ Logs'[p] # Logs[p] =>
                 /\ spc[p] = "append"
                 /\ entry[p].seq = nread[p]
                 /\ Logs'[p] = Append(Logs[p], entry[p])
            /\ passes'[p] # passes[p] => entry[p].seq = nread[p] /\ spc[p] = "bRLock"]_vars

\* a producer that was replaced in the registry by a newer connect, which
\* closed its connection, has a frame in hand
C28_Witness ==
  \E p \in Producers :
    /\ conn[p] = "closed"
    /\ spc[p] = "append"
    /\ sessions[DeviceHash[p]] # p
    /\ entry[p].seq = nread[p]

\* C23: under fair scheduling, with every consumer write returning within
\* its deadline, every publish pass ends and its producer is back at its
\* read; and within a pass the consumer set does not change, every step of
\* the loop is a write attempt to the next handle of the set (the entry is
\* delivered to it or the handle is marked dead), and the loop goes on to
\* the following handle whatever the attempt returned, so every handle of
\* the set gets its attempt in the same pass.
C23_PassTerminates ==
  /\ \A p \in Producers :
       spc[p] \in {"bRLock", "bWrite", "bPrune"} ~> spc[p] = "read"
  /\ [][\A p \in Producers :
         /\ spc[p] = "bWrite" => tailConns'[p] = tailConns[p]
         /\ /\ spc[p] \in {"bRLock", "bWrite"}
            /\ Len(tailConns[p]) > 0
            /\ spc'[p] # spc[p] \/ idx'[p] # idx[p]
            => LET i == IF spc[p] = "bRLock" THEN 1 ELSE idx[p]
                   h == tailConns[p][i]
               IN /\ \/ received'[h] = Append(received[h], entry[p])
                     \/ deadConns'[p] = Append(deadConns[p], h)
                  /\ tailConns'[p] = tailConns[p]
                  /\ IF i < Len(tailConns[p])
                       THEN spc'[p] = "bWrite" /\ idx'[p] = i + 1 /\ entry'[p] = entry[p]
                       ELSE spc'[p] \in {"bPrune", "read"}]_vars

\* a pass whose write to its first consumer failed has delivered the entry
\* to its second consumer and is back at the read after the clean-up
C23_Witness ==
  \E p \in Producers :
    /\ spc[p] = "read"
    /\ passes[p] = 1
    /\ Len(Logs[p]) = 1
    /\ \E c \in Consumers : \E d \in Consumers \ {c} :
         /\ c \in deadEver[p]
         /\ received[c] = <<>>
         /\ received[d] = Logs[p]
         /\ attachLen[c] = 0 /\ attachLen[d] = 0

\* C30: under fair scheduling, the handler of a producer that a newer
\* connect for the device has replaced in the registry (closing its handle)
\* eventually returns, and after it has returned the log of its session
\* never changes.
C30_EvictedTerminates ==
  /\ \A p \in Producers :
       (sresp[p] = 101 /\ sessions[DeviceHash[p]] # p) ~> spc[p] = "done"
  /\ [][\A p \in Producers :
         spc[p] = "done" /\ sresp[p] = 101 /\ sessions[DeviceHash[p]] # p =>
           Logs'[p] = Logs[p] /\ spc'[p] = "done"]_vars

\* the handler of a replaced producer, which had appended an entry, has
\* returned
C30_Witness ==
  \E p \in Producers :
    /\ sresp[p] = 101
    /\ sessions[DeviceHash[p]] # p
    /\ conn[p] = "closed"
    /\ spc[p] = "done"
    /\ Len(Logs[p]) = 1

\* the number of times handle c occurs in the consumer sets of all sessions
Occurrences(c) ==
  Cardinality({<<s, i>> \in Producers \X (1..Cardinality(Consumers) + 1) :
                 i <= Len(tailConns[s]) /\ tailConns[s][i] = c})

\* C31: a consumer handler goes from the request to the attach, to its read
\* loop, to the deferred close, to its end, and never back; its handle
\* occurs at most once in all consumer sets together, only in the set of the
\* session it resolved and only while the handler is in its read loop; and
\* when the handler of an accepted consumer has ended, the handle is in no
\* set and is closed.
C31_ConsumerLifecycle ==
  [][\A c \in Consumers :
       /\ tpc[c] = "idle" => tpc'[c] \in {"idle", "attach", "done"}
       /\ tpc[c] = "attach" => tpc'[c] \in {"attach", "reading"}
       /\ tpc[c] = "reading" => tpc'[c] \in {"reading", "close"}
       /\ tpc[c] = "close" => tpc'[c] \in {"close", "done"}
       /\ tpc[c] = "done" => tpc'[c] = "done"
       /\ tailConns' # tailConns \/ tpc'[c] # tpc[c] =>
            /\ Occurrences(c)' <= 1
            /\ \A s \in Producers :
                 c \in Range(tailConns'[s]) => tpc'[c] = "reading" /\ tsession'[c] = s
            /\ tpc'[c] = "done" /\ tresp'[c] = 101 =>
                 /\ tconn'[c] = "closed"
                 /\ \A s \in Producers : c \notin Range(tailConns'[s])]_vars

\* the handler of a consumer that had received an entry has ended while
\* another consumer is still attached to the session
C31_Witness ==
  \E c \in Consumers : \E d \in Consumers \ {c} :
    /\ tpc[c] = "done"
    /\ tresp[c] = 101
    /\ Len(received[c]) = 1
    /\ tsession[d] = tsession[c]
    /\ d \in Range(tailConns[tsession[d]])

\* the deviceIDs that have a session in the registry
Registered == {d \in DeviceInputs : sessions[d] # NoSession}

\* C32: no step removes a deviceID from the registry, so the set of
\* registered deviceIDs only grows; and an authorised /health request
\* reports the number of registered deviceIDs at the instant it reads the
\* registry, a number that therefore never decreases.
C32_RegistryNeverShrinks ==
  [][/\ Registered \subseteq Registered'
     /\ Cardinality(Registered') >= Cardinality(Registered)
     /\ \A q \in Queries :
          qpc[q] = "idle" /\ qpc'[q] = "done" /\ qresp'[q].code = 200 =>
            qresp'[q].body = <<Cardinality(Registered)>>]_vars

\* a /health request reported one device and a second deviceID has been
\* registered since
C32_Witness ==
  \E q \in Queries :
    /\ qpc[q] = "done"
    /\ qresp[q] = [code |-> 200, body |-> <<1>>]
    /\ Cardinality(Registered) = 2

\* C33: the copy a /logs request takes is the session's log at the instant
\* of the copy; the request keeps it unchanged, it is a prefix of the
\* session's log in every later state, the unfiltered response is the
\* rendering of the copy, whatever was appended since, and the response
\* once written does not change.
C33_PointInTimeCopy ==
  [][\A q \in Queries :
       /\ qpc[q] = "logsCopy" /\ qpc'[q] = "logsWrite" =>
            qlogs'[q] = Logs[qsession[q]]
       /\ qpc[q] \in {"logsWrite", "done"} => qlogs'[q] = qlogs[q]
       /\ qpc'[q] \in {"logsWrite", "done"} /\ qsession'[q] # NoSession =>
            IsPrefix(qlogs'[q], Logs'[qsession'[q]])
       /\ qpc[q] = "logsWrite" /\ qpc'[q] = "done" =>
            qresp'[q] = [code |-> 200, body |-> Render(qlogs[q], "")]
       /\ qpc[q] = "done" => qresp'[q] = qresp[q]]_vars

\* a request answered with the one entry of its copy, the session having
\* two entries by now
C33_Witness ==
  \E q \in Queries :
    /\ qpc[q] = "done"
    /\ qresp[q].code = 200
    /\ qsession[q] # NoSession
    /\ Len(qresp[q].body) = 1
    /\ Len(qlogs[q]) = 1
    /\ Len(Logs[qsession[q]]) = 2

\* C34: before and after every step the LogCount of every session is the
\* length of its log; and every record a /devices request adds to its
\* listing is for a session it had still to visit and carries the number of
\* entries that session's log holds at that instant.
C34_CountMatchesLog ==
  [][/\ \A s \in Producers :
          LogCount[s] = Len(Logs[s]) /\ LogCount'[s] = Len(Logs'[s])
     /\ \A q \in Queries :
          qdevices'[q] # qdevices[q] =>
            \E s \in qiter[q] :
              /\ qdevices'[q] = Append(qdevices[q],
                                        [device |-> DeviceHash[s], log_count |-> Len(Logs[s])])
              /\ Last(qdevices'[q]).log_count = LogCount[s]]_vars

\* a /devices request was answered with a count of one for a session that
\* holds two entries by now
C34_Witness ==
  \E q \in Queries : \E s \in Producers :
    /\ qpc[q] = "done"
    /\ qresp[q].code = 200
    /\ qdevices[q] # <<>>
    /\ qresp[q].body = qdevices[q]
    /\ \E i \in 1..Len(qdevices[q]) :
         qdevices[q][i] = [device |-> DeviceHash[s], log_count |-> 1]
    /\ sessions[DeviceHash[s]] = s
    /\ LogCount[s] = 2
    /\ Len(Logs[s]) = 2

\* C35: no handler is ever stuck at a lock.  Whenever a producer is about to
\* take the log lock (append), the read lock of its consumer set (start of a
\* publish pass) or the write lock of the set (clean-up, after the pass has
\* released its read lock), the lock can be taken; inside the write loop the
\* pass holds its read lock and has a handle to write to, and a write takes
\* no lock.  A consumer that is to attach or to detach can take the
\* consumer-set lock unless the only holder is the publish pass of its
\* session inside its write loop.  A /logs or /devices request can take
\* every log lock it is about to read-lock, and the registry lock is held
\* from one step to the next only by readers that are /devices requests in
\* their iteration.
C35_NoTaskBlockedForever ==
  /\ \A p \in Producers :
       /\ spc[p] = "append" => CanLock(logMu[session(p, sessions, DeviceHash)])
       /\ spc[p] = "bRLock" => CanRLock(tailMu[p])
       /\ spc[p] = "bWrite" =>
            /\ P(p) \in tailMu[p].r
            /\ idx[p] \in 1..Len(tailConns[p])
       /\ spc[p] = "bPrune" => CanLock(tailMu[p])
  /\ \A c \in Consumers :
       tpc[c] \in {"attach", "reading"} =>
         \/ CanLock(tailMu[tsession[c]])
         \/ /\ tailMu[tsession[c]] = [w |-> NoTask, r |-> {P(tsession[c])}]
            /\ spc[tsession[c]] = "bWrite"
  /\ \A q \in Queries :
       /\ qpc[q] = "logsCopy" => CanRLock(logMu[qsession[q]])
       /\ qpc[q] = "devicesIter" => \A s \in qiter[q] : CanRLock(logMu[s])
  /\ sessionsMu # FreeMutex =>
       /\ sessionsMu.w = NoTask
       /\ \A t \in sessionsMu.r : \E q \in Queries : t = Q(q) /\ qpc[q] = "devicesIter"

\* a publish pass has released its read lock and is about to take the write
\* lock for its clean-up while a consumer is about to take the same lock to
\* attach
C35_Witness ==
  \E p \in Producers : \E c \in Consumers :
    /\ spc[p] = "bPrune"
    /\ tpc[c] = "attach"
    /\ tsession[c] = p
    /\ Len(tailConns[p]) > 0

\* C36: the clean-up of a publish pass leaves in the consumer set, in their
\* order, exactly the handles that are not in the pass's dead list, whatever
\* attached or detached since the pass released its read lock; it closes
\* exactly the dead handles it still found in the set, and no other step of
\* a pass changes the set or closes a handle; a handle enters the dead list
\* only by a failed write of the pass, and the list is empty outside a pass.
C36_PruneOnlyDead ==
  [][\A p \in Producers :
       /\ spc[p] = "bPrune" /\ spc'[p] = "read" =>
            LET Alive(h) == h \notin Range(deadConns[p])
            IN /\ tailConns'[p] = SelectSeq(tailConns[p], Alive)
               /\ \A h \in Consumers :
                    tconn'[h] # tconn[h] <=>
                      h \in Range(deadConns[p]) \cap Range(tailConns[p]) /\ tconn[h] # "closed"
               /\ \A h \in Consumers : tconn'[h] # tconn[h] => tconn'[h] = "closed"
       /\ spc[p] \in {"bRLock", "bWrite"} /\ spc'[p] # spc[p] =>
            /\ tailConns' = tailConns /\ tconn' = tconn
            /\ deadConns'[p] # deadConns[p] =>
                 LET h == tailConns[p][IF spc[p] = "bRLock" THEN 1 ELSE idx[p]]
                 IN deadConns'[p] = Append(deadConns[p], h) /\ received'[h] = received[h]
       /\ spc'[p] \in {"idle", "read", "append", "bRLock", "done"} => deadConns'[p] = <<>>]_vars

\* a clean-up has run and skipped its dead handle, which had detached itself
\* and is not yet closed, and has left a consumer that received nothing in
\* the set
C36_Witness ==
  \E p \in Producers : \E h \in deadEver[p] : \E c \in Consumers \ {h} :
    /\ spc[p] = "read"
    /\ tconn[h] = "open"
    /\ tpc[h] = "close"
    /\ c \in Range(tailConns[p])
    /\ received[c] = <<>>

\* the number of passes of session s that have made their write attempt to
\* the attached handle c: all the passes begun, less the one in progress if
\* its loop has not yet reached c
PassesWritten(s, c) ==
  IF spc[s] = "bWrite" /\ FindConn(tailConns[s], c, 1) >= idx[s]
    THEN passes[s] - 1
    ELSE passes[s]

\* C37: entry n of a session is published by its n-th pass.  What an
\* accepted consumer has received is, in order and each once, the entries of
\* the passes that began after its attach, with no entry left out between
\* them; and while it is attached and none of its writes has failed, it has
\* received the entry of every pass that has made its write attempt to it.
C37_ExactlyOnce ==
  \A c \in Consumers :
    tresp[c] = 101 /\ tpc[c] \in {"reading", "close", "done"} =>
      LET s == tsession[c]
      IN /\ attachPass[c] + Len(received[c]) <= Len(Logs[s])
         /\ \A k \in 1..Len(received[c]) : received[c][k] = Logs[s][attachPass[c] + k]
         /\ /\ c \in Range(tailConns[s])
            /\ c \notin Range(deadConns[s])
            /\ c \notin deadEver[s]
            => Len(received[c]) = PassesWritten(s, c) - attachPass[c]

\* a consumer that attached after the first pass of a session is still
\* attached after the second and has received the second entry only
C37_Witness ==
  \E c \in Consumers :
    /\ tpc[c] = "reading"
    /\ c \in Range(tailConns[tsession[c]])
    /\ attachPass[c] = 1
    /\ passes[tsession[c]] = 2
    /\ spc[tsession[c]] = "read"
    /\ received[c] = <<Logs[tsession[c]][2]>>

\* C38: a consumer's handle is only ever in the consumer set of the session
\* its handler resolved at the lookup, and every entry it has received was
\* read by the producer of that session, also when the registry maps the
\* deviceID to a newer session by now.
C38_BoundToResolvedSession ==
  \A c \in Consumers :
    /\ \A s \in Producers : c \in Range(tailConns[s]) => s = tsession[c]
    /\ \A k \in 1..Len(received[c]) : received[c][k].src = tsession[c]

\* a consumer is attached to a session that the registry has replaced by a
\* newer one, which has an entry the consumer did not receive
C38_Witness ==
  \E c \in Consumers :
    LET old == tsession[c]
    IN /\ tpc[c] = "reading"
       /\ c \in Range(tailConns[old])
       /\ sessions[DeviceHash[old]] # old
       /\ Len(Logs[sessions[DeviceHash[old]]]) = 1
       /\ spc[sessions[DeviceHash[old]]] = "read"
       /\ received[c] = <<>>

\* C39: a producer connect with the right secret and a deviceID whose
\* websocket upgrade fails is answered by the failed handshake and leaves
\* the registry, every session's log, consumer set and producer handle, and
\* every consumer handle as they were.
C39_FailedUpgradeChangesNothing ==
  [][\A p \in Producers :
       /\ spc[p] = "idle" /\ spc'[p] # "idle"
       /\ ~(sresp'[p] = UpgradeFailed /\ spc'[p] = "done" /\ CoreUnchanged)
       => \A device \in DeviceIDs : ~handleStream(p, Secret, device, FALSE)]_vars

\* a connect has failed at the upgrade while the registry holds a session
\* whose producer is connected and reading
C39_Witness ==
  \E p \in Producers : \E o \in Producers \ {p} :
    /\ sresp[p] = UpgradeFailed
    /\ spc[p] = "done"
    /\ conn[p] = "nil"
    /\ sessions[DeviceHash[o]] = o
    /\ conn[o] = "open"
    /\ spc[o] = "read"

\* C40: a producer holds the read lock of its session's consumer set in
\* exactly the states inside the write loop of its publish pass, so the
\* release at the end of the loop is applied to a lock it holds; on entry
\* to a pass, in the window before the clean-up, and after every exit of a
\* pass (no consumers, all writes succeeded, clean-up done) it holds the
\* lock neither as reader nor as writer; and it never holds the consumer-set
\* lock of another session.
C40_LockPairing ==
  \A p \in Producers :
    /\ spc[p] = "bWrite" => P(p) \in tailMu[p].r /\ tailMu[p].w = NoTask
    /\ spc[p] # "bWrite" => P(p) \notin tailMu[p].r /\ tailMu[p].w # P(p)
    /\ \A s \in Producers \ {p} : P(p) \notin tailMu[s].r /\ tailMu[s].w # P(p)

\* a producer has left two passes, one of them through the clean-up, and is
\* back at its read with the lock free
C40_Witness ==
  \E p \in Producers :
    /\ spc[p] = "read"
    /\ passes[p] = 2
    /\ deadEver[p] # {}
    /\ tailConns[p] = <<>>
    /\ tailMu[p] = FreeMutex

====
